---- MODULE Spec2Model ----
(***************************************************************************)
(* Bibliography parsing and HTML rendering of pyssg.py, and the abstract   *)
(* scraper of .scripts/scrape_abstracts.py.                                *)
(*                                                                         *)
(* A Python str is modelled as a sequence of one-character strings, so     *)
(* that the regular expressions, split/strip/startswith and the f-string   *)
(* concatenations are computed character by character.  Python's None is   *)
(* the one-element sequence None, whose element is no character.           *)
(***************************************************************************)
EXTENDS Integers, Sequences, FiniteSets, TLC

VARIABLES
    content,     \* BibliographyParser.__init__: text of the .bib file
    matches,     \* __init__: the list re.findall returned (local `entries`)
    idx,         \* __init__: position of the for loop over matches
    entries,     \* BibliographyParser.entries
    warnings,    \* keys printed by the except branch, in order
    origin,      \* history: for each element of entries, the index in matches
                 \* of the record the object was built from (its identity)
    pc,          \* position of the running operation
    author_str,  \* argument of BibAuthor.from_string
    author,      \* result of BibAuthor.from_string
    data,        \* argument of from_dict: the field dictionary of one record
    entry_type,  \* record type name the dispatch of __init__ sees
    match_author,\* argument of as_html (ReferencesConfig.author)
    entry,       \* the entry built from data
    html,        \* result of BibEntry.as_html
    fields_text, \* argument of BibliographyParser._parse_fields
    updated_entries, \* add_abstracts_to_bibliography: the list it builds
    entry_i,     \* add_abstracts_to_bibliography: position of its for loop
    doi,         \* argument of AbstractScraper.scrape_abstract
    responses,   \* what each source's server answers for doi (the network)
    source_i,    \* scrape_abstract: position of the for loop over sources
    called,      \* history: names of the sources whose function was called
    requested,   \* history: names of the sources a request was sent to
    result       \* return value of scrape_abstract

\* the variables of the parser's helper and of scrape_abstracts.py
otherVars == <<fields_text, updated_entries, entry_i, doi, responses, source_i,
               called, requested, result>>

vars == <<content, matches, idx, entries, origin, warnings, pc, author_str, author,
          data, entry_type, match_author, entry, html, otherVars>>

----------------------------------------------------------------------------
(* Characters and string literals *)

LowerLetters == {"a", "b", "c", "d", "e", "f", "g", "h", "i", "j", "k", "l", "m", "n", "o", "p", "q", "r", "s", "t", "u", "v", "w", "x", "y", "z"}
UpperLetters == {"A", "B", "C", "D", "E", "F", "G", "H", "I", "J", "K", "L", "M", "N", "O", "P", "Q", "R", "S", "T", "U", "V", "W", "X", "Y", "Z"}
Digits == {"0", "1", "2", "3", "4", "5", "6", "7", "8", "9"}
\* \w of the re module, restricted to ASCII
WordChars == LowerLetters \cup UpperLetters \cup Digits \cup {"_"}
\* \s of the re module and the characters str.strip() removes
Whitespace == {" ", "\n", "\t"}
None == <<"<None>">>

S_article == <<"a", "r", "t", "i", "c", "l", "e">>
S_inproceedings == <<"i", "n", "p", "r", "o", "c", "e", "e", "d", "i", "n", "g", "s">>
S_techreport == <<"t", "e", "c", "h", "r", "e", "p", "o", "r", "t">>
S_author == <<"a", "u", "t", "h", "o", "r">>
S_year == <<"y", "e", "a", "r">>
S_key == <<"k", "e", "y">>
S_title == <<"t", "i", "t", "l", "e">>
S_month == <<"m", "o", "n", "t", "h">>
S_url == <<"u", "r", "l">>
S_doi == <<"d", "o", "i">>
S_publisher == <<"p", "u", "b", "l", "i", "s", "h", "e", "r">>
S_abstract == <<"a", "b", "s", "t", "r", "a", "c", "t">>
S_topic == <<"t", "o", "p", "i", "c">>
S_journal == <<"j", "o", "u", "r", "n", "a", "l">>
S_volume == <<"v", "o", "l", "u", "m", "e">>
S_number == <<"n", "u", "m", "b", "e", "r">>
S_pages == <<"p", "a", "g", "e", "s">>
S_issn == <<"i", "s", "s", "n">>
S_booktitle == <<"b", "o", "o", "k", "t", "i", "t", "l", "e">>
S_editor == <<"e", "d", "i", "t", "o", "r">>
S_institution == <<"i", "n", "s", "t", "i", "t", "u", "t", "i", "o", "n">>
S_type == <<"t", "y", "p", "e">>
S_comma_space == <<",", " ">>
S_and == <<" ", "a", "n", "d", " ">>
S_amp == <<"&">>
S_None == <<"N", "o", "n", "e">>
S_ten_dot == <<"1", "0", ".">>
S_doi_org == <<"h", "t", "t", "p", "s", ":", "/", "/", "d", "o", "i", ".", "o", "r", "g", "/">>
S_plumx == <<"h", "t", "t", "p", "s", ":", "/", "/", "p", "l", "u", ".", "m", "x", "/", "p", "l", "u", "m", "/", "a", "/", "?", "d", "o", "i", "=">>
S_with_score == <<"w", "i", "t", "h", "-", "s", "c", "o", "r", "e">>
S_no_score == <<"n", "o", "-", "s", "c", "o", "r", "e">>
S_reference == <<"r", "e", "f", "e", "r", "e", "n", "c", "e">>
S_space == <<" ">>
S_vol == <<" ", "|", " ", "V", "o", "l", ".", " ">>
S_no == <<" ", "|", " ", "N", "o", ".", " ">>
S_dots == <<".", ".", ".">>
S_expanded == <<"e", "x", "p", "a", "n", "d", "e", "d">>
S_authors == <<"a", "u", "t", "h", "o", "r", "s">>
S_cls_year == <<"y", "e", "a", "r">>
S_cls_source == <<"s", "o", "u", "r", "c", "e">>
S_cls_topic == <<"t", "o", "p", "i", "c">>
S_cls_title == <<"t", "i", "t", "l", "e">>
S_cls_badges == <<"b", "a", "d", "g", "e", "s">>
S_cls_abstract == <<"a", "b", "s", "t", "r", "a", "c", "t">>
S_author_match == <<"a", "u", "t", "h", "o", "r", "-", "m", "a", "t", "c", "h">>
S_author_visible == <<"a", "u", "t", "h", "o", "r", "-", "v", "i", "s", "i", "b", "l", "e">>
S_author_toggle == <<"a", "u", "t", "h", "o", "r", "-", "t", "o", "g", "g", "l", "e">>
S_author_ellipsis == <<"a", "u", "t", "h", "o", "r", "-", "e", "l", "l", "i", "p", "s", "i", "s">>
S_comma == <<",">>
UpperSeq == <<"A", "B", "C", "D", "E", "F", "G", "H", "I", "J", "K", "L", "M", "N", "O", "P", "Q", "R", "S", "T", "U", "V", "W", "X", "Y", "Z">>
LowerSeq == <<"a", "b", "c", "d", "e", "f", "g", "h", "i", "j", "k", "l", "m", "n", "o", "p", "q", "r", "s", "t", "u", "v", "w", "x", "y", "z">>

\* texts of the documents and records the operations are run on
S_misc == <<"m", "i", "s", "c">>
S_2021 == <<"2", "0", "2", "1">>
S_2023 == <<"2", "0", "2", "3">>
S_abc == <<"a", "b", "c">>
S_T == <<"T">>
S_doi_example == <<"1", "0", ".", "1", "2", "3", "4", "/", "a", "b", "c">>
S_doi_arxiv == <<"a", "r", "X", "i", "v", ":", "1", "2", "3", "4">>
S_doi_ten == <<"1", "0">>
S_url_example == <<"h", "t", "t", "p", ":", "/", "/", "u", ".", "o", "r", "g", "/", "p">>
S_topic_example == <<"G", "l", "o", "b", "a", "l", " ", "H", "e", "a", "l", "t", "h", " ", "&", " ", "P", "o", "l", "i", "c", "y">>
S_authors_example == <<"K", "e", "e", "s", "t", "r", "a", ",", " ", "S", "a", "r", "a", "i", " ", "M", ".", " ", "a", "n", "d", " ", "S", "m", "i", "t", "h", ",", " ", "J", "o", "h", "n">>
S_Keestra == <<"K", "e", "e", "s", "t", "r", "a">>
S_title_example == <<"A", " ", "S", "t", "u", "d", "y">>

----------------------------------------------------------------------------
(* Python str and dict operations used by the code *)

Min(S) == CHOOSE x \in S : \A y \in S : x <= y
Max(S) == CHOOSE x \in S : \A y \in S : x >= y

\* str.strip(chars): drop the characters of `chars` at both ends
StripChars(s, chars) ==
    LET keep == {i \in 1..Len(s) : s[i] \notin chars}
    IN  IF keep = {} THEN <<>> ELSE SubSeq(s, Min(keep), Max(keep))

\* str.strip()
Strip(s) == StripChars(s, Whitespace)

\* p occurs in s at index i
MatchesAt(s, p, i) ==
    /\ i >= 1
    /\ i + Len(p) - 1 <= Len(s)
    /\ \A k \in 1..Len(p) : s[i + k - 1] = p[k]

\* str.startswith
StartsWith(s, p) == MatchesAt(s, p, 1)

\* str.find(sub, from): the lowest index >= from where sub occurs, 0 if none
Find(s, sub, from) ==
    LET hits == {i \in from..Len(s) : MatchesAt(s, sub, i)}
    IN  IF hits = {} THEN 0 ELSE CHOOSE i \in hits : \A k \in hits : i <= k

\* sub in s
Contains(s, sub) == \E i \in 1..(Len(s) + 1) : MatchesAt(s, sub, i)

\* str.split(sep)
RECURSIVE Split(_, _)
Split(s, sep) ==
    LET i == Find(s, sep, 1)
    IN  IF i = 0 THEN <<s>>
        ELSE <<SubSeq(s, 1, i - 1)>> \o Split(SubSeq(s, i + Len(sep), Len(s)), sep)

\* dict: a function from keys (texts) to values
EmptyDict == [k \in {} |-> <<>>]
Put(d, k, v) == [x \in (DOMAIN d) \cup {k} |-> IF x = k THEN v ELSE d[x]]
\* dict.get(k, default)
Get(d, k, default) == IF k \in DOMAIN d THEN d[k] ELSE default

\* truthiness of an Optional[str]
Truthy(s) == s # None /\ s # <<>>

\* str(x) of an Optional[str], as an f-string formats it
Str(s) == IF s = None THEN S_None ELSE s

----------------------------------------------------------------------------
(* int(str) *)

DigitChars == <<"0", "1", "2", "3", "4", "5", "6", "7", "8", "9">>
DigitVal(c) == (CHOOSE k \in 1..10 : DigitChars[k] = c) - 1

\* the digits of an integer literal after whitespace and sign are removed
IntBody(s) ==
    LET t == Strip(s)
    IN  IF t # <<>> /\ t[1] \in {"+", "-"} THEN Tail(t) ELSE t

\* int(s) succeeds: optional sign, digits, single underscores between digits
IntOk(s) ==
    LET b == IntBody(s)
    IN  /\ b # <<>>
        /\ \A i \in 1..Len(b) : b[i] \in Digits \cup {"_"}
        /\ b[1] \in Digits /\ b[Len(b)] \in Digits
        /\ \A i \in 1..(Len(b) - 1) : ~(b[i] = "_" /\ b[i + 1] = "_")

RECURSIVE DigitsVal(_)
DigitsVal(b) ==
    IF b = <<>> THEN 0
    ELSE IF b[Len(b)] = "_" THEN DigitsVal(SubSeq(b, 1, Len(b) - 1))
    ELSE 10 * DigitsVal(SubSeq(b, 1, Len(b) - 1)) + DigitVal(b[Len(b)])

IntVal(s) ==
    LET t == Strip(s)
    IN  IF t[1] = "-" THEN 0 - DigitsVal(IntBody(s)) ELSE DigitsVal(IntBody(s))

----------------------------------------------------------------------------
(* The two regular expressions, as re.findall evaluates them *)

\* end of the longest run of characters of `cls` starting at i
RECURSIVE RunEnd(_, _, _)
RunEnd(s, i, cls) ==
    IF i > Len(s) THEN Len(s) + 1
    ELSE IF s[i] \notin cls THEN i
    ELSE RunEnd(s, i + 1, cls)

\* end of the longest run of characters outside `cls` starting at i
RECURSIVE NegRunEnd(_, _, _)
NegRunEnd(s, i, cls) ==
    IF i > Len(s) THEN Len(s) + 1
    ELSE IF s[i] \in cls THEN i
    ELSE NegRunEnd(s, i + 1, cls)

NoMatch == [ok |-> FALSE]

\* entry_pattern = r"@(\w+)\{([^,]+),\s*(.*?)\n\}" with re.DOTALL, tried at i
MatchEntryAt(c, i) ==
    LET n == Len(c)
        j == RunEnd(c, i + 1, WordChars)        \* (\w+) ends before j
        q == Find(c, <<",">>, j + 1)            \* ([^,]+) ends before the comma q
        p == RunEnd(c, q + 1, Whitespace)       \* greedy \s* ends before p
        t == Find(c, <<"\n", "}">>, p)          \* lazy (.*?) ends before t
    IN  IF ~(i <= n /\ c[i] = "@" /\ j > i + 1 /\ j <= n /\ c[j] = "{" /\ q > j + 1)
        THEN NoMatch
        ELSE IF t # 0
        THEN [ok |-> TRUE, end |-> t + 2,
              groups |-> <<SubSeq(c, i + 1, j - 1), SubSeq(c, j + 1, q - 1),
                           SubSeq(c, p, t - 1)>>]
        \* \s* gives back its last newline to \n\}
        ELSE IF p > q + 1 /\ MatchesAt(c, <<"\n", "}">>, p - 1)
        THEN [ok |-> TRUE, end |-> p + 1,
              groups |-> <<SubSeq(c, i + 1, j - 1), SubSeq(c, j + 1, q - 1), <<>> >>]
        ELSE NoMatch

\* re.findall(entry_pattern, content, re.DOTALL) from position pos on
RECURSIVE FindAllFrom(_, _)
FindAllFrom(c, pos) ==
    LET a == Find(c, <<"@">>, pos)
    IN  IF a = 0 THEN <<>>
        ELSE LET m == MatchEntryAt(c, a)
             IN  IF m.ok THEN <<m.groups>> \o FindAllFrom(c, m.end)
                 ELSE FindAllFrom(c, a + 1)

\* field_pattern = r"(\w+)\s*=\s*\{([^}]*)\}|(\w+)\s*=\s*([^,\n]+)", tried at i
MatchFieldAt(f, i) ==
    LET n == Len(f)
        j == RunEnd(f, i, WordChars)            \* (\w+) ends before j
        a == RunEnd(f, j, Whitespace)           \* \s* ends before a, the "="
        b == RunEnd(f, a + 1, Whitespace)       \* greedy \s* ends before b
        r == Find(f, <<"}">>, b + 1)            \* ([^}]*) ends before r
        \* second alternative: \s* gives back whitespace that [^,\n]+ can take
        back == {w \in (a + 1)..(b - 1) : f[w] # "\n"}
        v == IF b <= n /\ f[b] \notin {",", "\n"} THEN b
             ELSE IF back # {} THEN Max(back) ELSE 0
        e == NegRunEnd(f, v, {",", "\n"})
    IN  IF ~(i <= n /\ j > i /\ a <= n /\ f[a] = "=")
        THEN NoMatch
        ELSE IF b <= n /\ f[b] = "{" /\ r # 0
        THEN [ok |-> TRUE, end |-> r + 1, braced |-> TRUE,
              name |-> SubSeq(f, i, j - 1), value |-> SubSeq(f, b + 1, r - 1)]
        ELSE IF v # 0
        THEN [ok |-> TRUE, end |-> e, braced |-> FALSE,
              name |-> SubSeq(f, i, j - 1), value |-> SubSeq(f, v, e - 1)]
        ELSE NoMatch

\* BibliographyParser._parse_fields: the loop over re.findall(field_pattern, ..)
RECURSIVE ParseFieldsFrom(_, _, _)
ParseFieldsFrom(f, pos, fields) ==
    IF pos > Len(f) THEN fields
    ELSE LET m == MatchFieldAt(f, pos)
         IN  IF m.ok
             THEN ParseFieldsFrom(f, m.end,
                     Put(fields, Strip(m.name),
                         Strip(StripChars(Strip(m.value), {"{", "}"}))))
             ELSE ParseFieldsFrom(f, pos + 1, fields)

parse_fields(fields_str) == ParseFieldsFrom(fields_str, 1, EmptyDict)

----------------------------------------------------------------------------
(* Author and entry model *)

\* from_string with the fallback taken only for fewer than two parts
BibAuthor_from_string_first_two(s) ==
    LET parts == Split(Strip(s), S_comma_space)
    IN  IF Len(parts) < 2
        THEN [first_name |-> <<>>, last_name |-> Strip(s)]
        ELSE [first_name |-> Strip(parts[2]), last_name |-> Strip(parts[1])]

\* BibAuthor.from_string
BibAuthor_from_string(s) ==
    LET parts == Split(Strip(s), S_comma_space)
    IN  IF Len(parts) # 2
        THEN [first_name |-> <<>>, last_name |-> Strip(s)]
        ELSE [first_name |-> Strip(parts[2]), last_name |-> Strip(parts[1])]

\* BibAuthor.__str__
BibAuthor_str(a) ==
    IF a.first_name # <<>> THEN a.first_name \o S_space \o a.last_name
    ELSE a.last_name

\* the author list of from_dict
ParseAuthors(d) ==
    IF S_author \in DOMAIN d
    THEN LET author_list == Split(d[S_author], S_and)
         IN  [i \in 1..Len(author_list) |->
                 BibAuthor_from_string(Strip(author_list[i]))]
    ELSE <<>>

\* int(data.get("year", 0)) raises ValueError
YearRaises(d) == S_year \in DOMAIN d /\ ~IntOk(d[S_year])
ParseYear(d) == IF S_year \in DOMAIN d THEN IntVal(d[S_year]) ELSE 0

Raised(exc) == [ok |-> FALSE, exc |-> exc]
Returned(v) == [ok |-> TRUE, val |-> v]

\* BibEntry.from_dict
BibEntry_from_dict(d) ==
    IF YearRaises(d) THEN Raised("ValueError")
    ELSE Returned([cls |-> "BibEntry",
                   key |-> Get(d, S_key, <<>>),
                   title |-> Get(d, S_title, <<>>),
                   authors |-> ParseAuthors(d),
                   year |-> ParseYear(d),
                   month |-> Get(d, S_month, None),
                   url |-> Get(d, S_url, None),
                   doi |-> Get(d, S_doi, None),
                   publisher |-> Get(d, S_publisher, None),
                   abstract |-> Get(d, S_abstract, None),
                   topic |-> Get(d, S_topic, None)])

\* BibArticle.from_dict
BibArticle_from_dict(d) ==
    LET base == BibEntry_from_dict(d)
    IN  IF ~base.ok THEN base
        ELSE Returned([cls |-> "BibArticle",
                       key |-> base.val.key, title |-> base.val.title,
                       authors |-> base.val.authors, year |-> base.val.year,
                       month |-> base.val.month, url |-> base.val.url,
                       doi |-> base.val.doi, publisher |-> base.val.publisher,
                       abstract |-> base.val.abstract, topic |-> base.val.topic,
                       journal |-> Get(d, S_journal, None),
                       volume |-> Get(d, S_volume, None),
                       number |-> Get(d, S_number, None),
                       pages |-> Get(d, S_pages, None),
                       issn |-> Get(d, S_issn, None)])

\* BibInProceedings.from_dict
BibInProceedings_from_dict(d) ==
    LET base == BibEntry_from_dict(d)
    IN  IF ~base.ok THEN base
        ELSE Returned([cls |-> "BibInProceedings",
                       key |-> base.val.key, title |-> base.val.title,
                       authors |-> base.val.authors, year |-> base.val.year,
                       month |-> base.val.month, url |-> base.val.url,
                       doi |-> base.val.doi, publisher |-> base.val.publisher,
                       abstract |-> base.val.abstract, topic |-> base.val.topic,
                       booktitle |-> Get(d, S_booktitle, None),
                       pages |-> Get(d, S_pages, None),
                       editor |-> Get(d, S_editor, None)])

\* BibTechReport.from_dict
BibTechReport_from_dict(d) ==
    LET base == BibEntry_from_dict(d)
    IN  IF ~base.ok THEN base
        ELSE Returned([cls |-> "BibTechReport",
                       key |-> base.val.key, title |-> base.val.title,
                       authors |-> base.val.authors, year |-> base.val.year,
                       month |-> base.val.month, url |-> base.val.url,
                       doi |-> base.val.doi, publisher |-> base.val.publisher,
                       abstract |-> base.val.abstract, topic |-> base.val.topic,
                       institution |-> Get(d, S_institution, None),
                       type |-> Get(d, S_type, None)])

\* the if/elif chain without its techreport branch
MakeEntry_no_techreport(type, d) ==
    IF type = S_article THEN BibArticle_from_dict(d)
    ELSE IF type = S_inproceedings THEN BibInProceedings_from_dict(d)
    ELSE BibArticle_from_dict(d)

\* the if/elif chain of BibliographyParser.__init__
MakeEntry(type, d) ==
    IF type = S_article THEN BibArticle_from_dict(d)
    ELSE IF type = S_inproceedings THEN BibInProceedings_from_dict(d)
    ELSE IF type = S_techreport THEN BibTechReport_from_dict(d)
    ELSE BibArticle_from_dict(d)

\* hasattr(self, name)
HasAttr(e, name) == name \in DOMAIN e

----------------------------------------------------------------------------
(* HTML elements *)

\* str.lower()
LowerChar(c) ==
    IF c \in UpperLetters THEN LowerSeq[CHOOSE k \in 1..26 : UpperSeq[k] = c] ELSE c
Lower(s) == [i \in 1..Len(s) |-> LowerChar(s[i])]

\* str.replace(" ", "-")
SpacesToHyphens(s) == [i \in 1..Len(s) |-> IF s[i] = " " THEN "-" ELSE s[i]]

\* The values a Children can be: None, a str, an int, an HTMLElement, a list
NoneNode == [kind |-> "None"]
StrNode(s) == [kind |-> "str", text |-> s]
IntNode(n) == [kind |-> "int", val |-> n]
ListNode(items) == [kind |-> "list", items |-> items]
\* an Optional[str] as a child
OptNode(s) == IF s = None THEN NoneNode ELSE StrNode(s)

\* HTMLElement.__init__
HTMLElement(tag, children, kwargs) ==
    [kind |-> "element", tag |-> tag, children |-> children, kwargs |-> kwargs]

\* Div, Span and A: Span and A wrap their text in a list, A adds href and target
Div(children, kwargs) == HTMLElement("div", children, kwargs)
Span(text, kwargs) == HTMLElement("span", ListNode(<<text>>), kwargs)
A(text, href, kwargs) ==
    HTMLElement("a", ListNode(<<text>>),
                [href |-> href, target |-> <<"_","b","l","a","n","k">>] @@ kwargs)

NoKwargs == [k \in {} |-> <<>>]

----------------------------------------------------------------------------
(* Rendering of an entry *)

\* ReferencesConfig.topics_class_name; None has no split()
topics_class_name(topic) ==
    IF topic = None THEN Raised("AttributeError")
    ELSE Returned(Lower(SpacesToHyphens(Strip(Split(topic, S_amp)[1]))))

\* BibEntry._source_html
source_html(e) ==
    LET source0 ==
            IF HasAttr(e, "journal") /\ Truthy(e.journal) THEN e.journal
            ELSE IF HasAttr(e, "booktitle") /\ Truthy(e.booktitle) THEN e.booktitle
            ELSE <<>>
        source1 ==
            IF HasAttr(e, "volume") /\ Truthy(e.volume)
            THEN source0 \o S_vol \o e.volume ELSE source0
        source2 ==
            IF HasAttr(e, "number") /\ Truthy(e.number)
            THEN source1 \o S_no \o e.number ELSE source1
    IN  ListNode(<<Span(StrNode(source2), NoKwargs)>>)

\* the href of the title link: self.url or f"https://doi.org/{self.doi}"
TitleHref(e) == IF Truthy(e.url) THEN e.url ELSE S_doi_org \o Str(e.doi)

\* BibEntry._title_html
title_html(e) ==
    ListNode(<<A(StrNode(e.title), TitleHref(e), NoKwargs),
               Span(OptNode(e.doi), NoKwargs)>>)

\* the loop that finds matched_index: the first author whose str() contains
\* match_author, both lowered; 0 stands for None
MatchedIndex(e, ma) ==
    LET hits == {i \in 1..Len(e.authors) :
                    Contains(Lower(BibAuthor_str(e.authors[i])), Lower(ma))}
    IN  IF hits = {} THEN 0 ELSE Min(hits)

\* the spans of one author with the list expanding from three authors on
AuthorSpans_expands_from_three(e, i, matched_index) ==
    LET n == Len(e.authors)
        expands == n >= 3
        is_match == i = matched_index
        is_first == i = 1
        is_last == i = n
        visibility_class ==
            IF is_match THEN S_author_match
            ELSE IF ~expands \/ is_first \/ is_last THEN S_author_visible
            ELSE S_author_toggle
        author_html ==
            IF ~is_last THEN BibAuthor_str(e.authors[i]) \o S_comma
            ELSE BibAuthor_str(e.authors[i])
        ellipsis == Span(StrNode(S_dots), [cls |-> S_author_ellipsis])
    IN  (IF is_last /\ expands /\ ~is_match THEN <<ellipsis>> ELSE <<>>)
        \o <<Span(StrNode(author_html), [cls |-> visibility_class])>>
        \o (IF is_first /\ expands /\ ~is_match THEN <<ellipsis>> ELSE <<>>)

\* the spans one author contributes to the list of _authors_html
AuthorSpans(e, i, matched_index) ==
    LET n == Len(e.authors)
        expands == n > 3
        is_match == i = matched_index
        is_first == i = 1
        is_last == i = n
        visibility_class ==
            IF is_match THEN S_author_match
            ELSE IF ~expands \/ is_first \/ is_last THEN S_author_visible
            ELSE S_author_toggle
        author_html ==
            IF ~is_last THEN BibAuthor_str(e.authors[i]) \o S_comma
            ELSE BibAuthor_str(e.authors[i])
        ellipsis == Span(StrNode(S_dots), [cls |-> S_author_ellipsis])
    IN  (IF is_last /\ expands /\ ~is_match THEN <<ellipsis>> ELSE <<>>)
        \o <<Span(StrNode(author_html), [cls |-> visibility_class])>>
        \o (IF is_first /\ expands /\ ~is_match THEN <<ellipsis>> ELSE <<>>)

RECURSIVE AuthorSpansUpTo(_, _, _)
AuthorSpansUpTo(e, i, matched_index) ==
    IF i = 0 THEN <<>>
    ELSE AuthorSpansUpTo(e, i - 1, matched_index) \o AuthorSpans(e, i, matched_index)

\* BibEntry._authors_html; None has no lower()
authors_html(e, ma) ==
    IF e.authors = <<>> THEN Returned(NoneNode)
    ELSE IF ma = None THEN Raised("AttributeError")
    ELSE Returned(ListNode(AuthorSpansUpTo(e, Len(e.authors), MatchedIndex(e, ma))))

\* BibEntry._badges_html: the Dimensions span (__dimensions_badge_embed__), the
\* Altmetric div (altmetric-embed) and the PlumX link (plumx-plum-print-popup)
badges_html(e) ==
    IF Truthy(e.doi)
    THEN ListNode(<<
            Span(NoneNode, [cls |-> <<"_","_","d","i","m","e","n","s","i","o","n","s","_","b","a","d","g","e","_","e","m","b","e","d","_","_">>, data_doi |-> e.doi,
                            data_legend |-> <<"h","o","v","e","r","-","r","i","g","h","t">>,
                            data_style |-> <<"s","m","a","l","l","_","c","i","r","c","l","e">>]),
            Div(NoneNode, [cls |-> <<"a","l","t","m","e","t","r","i","c","-","e","m","b","e","d">>, data_badge_type |-> <<"d","o","n","u","t">>,
                           data_badge_popover |-> <<"r","i","g","h","t">>, data_doi |-> e.doi]),
            A(NoneNode, S_plumx \o Str(e.doi),
              [cls |-> <<"p","l","u","m","x","-","p","l","u","m","-","p","r","i","n","t","-","p","o","p","u","p">>, data_popup |-> <<"r","i","g","h","t">>,
               data_size |-> <<"m","e","d","i","u","m">>, data_site |-> <<"p","l","u","m">>,
               data_hide_when_empty |-> <<"t","r","u","e">>])>>)
    ELSE NoneNode

\* has_score for every entry that has a DOI, whatever its prefix
HasScore_any_doi(e) == Truthy(e.doi)

\* has_score = self.doi and self.doi.startswith("10.")
HasScore(e) == Truthy(e.doi) /\ StartsWith(e.doi, S_ten_dot)

\* BibEntry.as_html
as_html(e, ma) ==
    LET score_class == IF HasScore(e) THEN S_with_score ELSE S_no_score
        authors == authors_html(e, ma)
        authors_expandable == Len(e.authors) > 3
        topic_class == topics_class_name(e.topic)
    IN  IF ~authors.ok THEN authors
        ELSE IF ~topic_class.ok THEN topic_class
        ELSE Returned(Div(ListNode(<<
                Div(IntNode(e.year), [cls |-> S_cls_year]),
                Div(source_html(e), [cls |-> S_cls_source]),
                Span(OptNode(e.topic), [cls |-> S_cls_topic]),
                Div(title_html(e), [cls |-> S_cls_title]),
                Div(badges_html(e), [cls |-> S_cls_badges]),
                Div(authors.val,
                    [cls |-> S_authors \o S_space
                             \o (IF authors_expandable THEN <<>> ELSE S_expanded),
                     onClick |-> <<"t","h","i","s",".","c","l","a","s","s","L","i","s","t",".","a","d","d","(","'","e","x","p","a","n","d","e","d","'",")">>]),
                Div(Div(OptNode(e.abstract), NoKwargs), [cls |-> S_cls_abstract])>>),
              [cls |-> S_reference \o S_space \o score_class \o S_space
                       \o topic_class.val,
               style |-> <<"o","r","d","e","r",":"," ","2","0","0",";">>]))

----------------------------------------------------------------------------
(* BibliographyParser.__init__ *)

\* a descending sort that is not stable: x goes before the elements of its year
InsertByYearDesc_unstable(sorted, x) ==
    LET k == Cardinality({i \in 1..Len(sorted) : sorted[i][1].year > x[1].year})
    IN  SubSeq(sorted, 1, k) \o <<x>> \o SubSeq(sorted, k + 1, Len(sorted))

\* list.sort(key=lambda x: x.year, reverse=True) on (entry, origin) pairs:
\* x goes behind the elements whose year is >= its own (a stable sort)
InsertByYearDesc(sorted, x) ==
    LET k == Cardinality({i \in 1..Len(sorted) : sorted[i][1].year >= x[1].year})
    IN  SubSeq(sorted, 1, k) \o <<x>> \o SubSeq(sorted, k + 1, Len(sorted))

RECURSIVE SortByYearDesc(_)
SortByYearDesc(s) ==
    IF s = <<>> THEN <<>>
    ELSE InsertByYearDesc(SortByYearDesc(SubSeq(s, 1, Len(s) - 1)), s[Len(s)])

\* entry_data of one match: _parse_fields(fields_str), then entry_data["key"] = key
EntryData(m) == Put(parse_fields(m[3]), S_key, m[2])

\* entries = re.findall(entry_pattern, content, re.DOTALL)
FindAll ==
    /\ pc = "init"
    /\ matches' = FindAllFrom(content, 1)
    /\ idx' = 1
    /\ pc' = "loop"
    /\ UNCHANGED <<content, entries, origin, warnings, author_str, author,
                   data, entry_type, match_author, entry, html, otherVars>>

\* one iteration without the try/except: the exception leaves the constructor
ParseRecord_no_except ==
    /\ pc = "loop"
    /\ idx <= Len(matches)
    /\ LET m == matches[idx]
           r == MakeEntry(m[1], EntryData(m))
       IN  IF r.ok
           THEN /\ entries' = Append(entries, r.val)
                /\ origin' = Append(origin, idx)
                /\ idx' = idx + 1
                /\ UNCHANGED pc
           ELSE /\ pc' = "raised"
                /\ UNCHANGED <<entries, origin, idx>>
    /\ UNCHANGED <<content, matches, warnings, author_str, author,
                   data, entry_type, match_author, entry, html, otherVars>>

\* one iteration of the for loop: the try block and its except branch
ParseRecord ==
    /\ pc = "loop"
    /\ idx <= Len(matches)
    /\ LET m == matches[idx]
           r == MakeEntry(m[1], EntryData(m))
       IN  IF r.ok
           THEN /\ entries' = Append(entries, r.val)
                /\ origin' = Append(origin, idx)
                /\ UNCHANGED warnings
           ELSE /\ warnings' = Append(warnings, m[2])
                /\ UNCHANGED <<entries, origin>>
    /\ idx' = idx + 1
    /\ UNCHANGED <<content, matches, pc, author_str, author,
                   data, entry_type, match_author, entry, html, otherVars>>

\* self.entries.sort(key=lambda x: x.year, reverse=True), after the loop
Sort ==
    /\ pc = "loop"
    /\ idx > Len(matches)
    /\ LET sorted == SortByYearDesc([i \in 1..Len(entries) |-> <<entries[i], origin[i]>>])
       IN  /\ entries' = [i \in 1..Len(sorted) |-> sorted[i][1]]
           /\ origin' = [i \in 1..Len(sorted) |-> sorted[i][2]]
    /\ pc' = "done"
    /\ UNCHANGED <<content, matches, idx, warnings, author_str, author,
                   data, entry_type, match_author, entry, html, otherVars>>

----------------------------------------------------------------------------
(* Documents the parser is run on *)

MaxRecords == 2
MaxSortRecords == 3

RecordTypes == {S_article, S_inproceedings, S_techreport, S_misc}
\* the year field of a record: absent (None) or the text between its braces
YearTexts == {None, S_2021, S_2023, S_abc}
RecordChoices == [type : RecordTypes, year : YearTexts]

\* "  <name> = {<value>}"
FieldLine(name, value) ==
    <<" ", " ">> \o name \o <<" ", "=", " ", "{">> \o value \o <<"}">>

RecordKey(i) == <<"k", DigitChars[i + 1]>>

\* "@<type>{<key>,\n  <field> = {<value>},\n  ...\n}\n"
RecordText(i, r) ==
    <<"@">> \o r.type \o <<"{">> \o RecordKey(i) \o <<",", "\n">>
    \o FieldLine(S_title, S_T)
    \o (IF r.year = None THEN <<>> ELSE <<",", "\n">> \o FieldLine(S_year, r.year))
    \o <<"\n", "}", "\n">>

RECURSIVE DocText(_)
DocText(recs) ==
    IF recs = <<>> THEN <<>>
    ELSE DocText(SubSeq(recs, 1, Len(recs) - 1)) \o RecordText(Len(recs), recs[Len(recs)])

\* documents of up to MaxRecords records of every type and year
Documents ==
    {DocText(recs) : recs \in UNION {[1..n -> RecordChoices] : n \in 0..MaxRecords}}

\* documents of up to MaxSortRecords articles, which differ in their year
SortDocuments ==
    {DocText(recs) : recs \in UNION {[1..n -> [type : {S_article}, year : YearTexts]] :
                                        n \in 0..MaxSortRecords}}

\* the variables an operation does not use
IdleParser ==
    /\ content = <<>> /\ matches = <<>> /\ idx = 0 /\ entries = <<>>
    /\ origin = <<>> /\ warnings = <<>>
IdleAuthor == author_str = <<>> /\ author = None
IdleRender ==
    /\ data = EmptyDict /\ entry_type = <<>> /\ match_author = <<>>
    /\ entry = None /\ html = None
IdleFields == fields_text = <<>>
IdleEnrich == updated_entries = <<>> /\ entry_i = 0
IdleScrape ==
    /\ doi = <<>> /\ responses = <<>> /\ source_i = 0
    /\ called = <<>> /\ requested = <<>> /\ result = None
IdleOthers == IdleFields /\ IdleEnrich /\ IdleScrape

Init ==
    /\ content \in Documents
    /\ matches = <<>> /\ idx = 0 /\ entries = <<>> /\ origin = <<>>
    /\ warnings = <<>>
    /\ pc = "init"
    /\ IdleAuthor /\ IdleRender /\ IdleOthers

Next == FindAll \/ ParseRecord \/ Sort

Spec == Init /\ [][Next]_vars

InitSort ==
    /\ content \in SortDocuments
    /\ matches = <<>> /\ idx = 0 /\ entries = <<>> /\ origin = <<>>
    /\ warnings = <<>>
    /\ pc = "init"
    /\ IdleAuthor /\ IdleRender /\ IdleOthers

SpecSort == InitSort /\ [][Next]_vars

----------------------------------------------------------------------------
(* BibAuthor.from_string on its own *)

MaxAuthorLen == 7
AuthorChars == {"a", ",", " "}
AuthorStrings == UNION {[1..n -> AuthorChars] : n \in 0..MaxAuthorLen}

\* author = BibAuthor.from_string(author_str)
FromString ==
    /\ pc = "from_string"
    /\ author' = BibAuthor_from_string(author_str)
    /\ pc' = "from_string_returned"
    /\ UNCHANGED <<content, matches, idx, entries, origin, warnings, author_str,
                   data, entry_type, match_author, entry, html, otherVars>>

InitAuthor ==
    /\ author_str \in AuthorStrings
    /\ author = None
    /\ pc = "from_string"
    /\ IdleParser /\ IdleRender /\ IdleOthers

NextAuthor == FromString

SpecAuthor == InitAuthor /\ [][NextAuthor]_vars

----------------------------------------------------------------------------
(* from_dict and as_html on one record *)

MaxOver == 1

\* an abstract of n letters
AbstractOfLen(n) == [i \in 1..n |-> LowerSeq[(i % 26) + 1]]
AbstractTexts == {AbstractOfLen(n) : n \in {0, 1} \cup (199..(200 + MaxOver))}

\* the field dictionaries: each optional field absent (None) or one of its texts
OptionalTexts ==
    [doi : {None, <<>>, S_doi_example, S_doi_arxiv, S_doi_ten},
     url : {None, <<>>, S_url_example},
     topic : {None, <<>>, S_topic_example},
     abstract : {None} \cup AbstractTexts,
     author : {None, S_authors_example}]

PutIfPresent(d, k, v) == IF v = None THEN d ELSE Put(d, k, v)

FieldDict(o) ==
    PutIfPresent(PutIfPresent(PutIfPresent(PutIfPresent(PutIfPresent(
        Put(Put(Put(EmptyDict, S_key, RecordKey(1)), S_title, S_title_example),
            S_year, S_2023),
        S_doi, o.doi), S_url, o.url), S_topic, o.topic), S_abstract, o.abstract),
        S_author, o.author)

\* entry = <class>.from_dict(entry_data), as the dispatch of __init__ calls it
FromDict ==
    /\ pc = "from_dict"
    /\ LET r == MakeEntry(entry_type, data)
       IN  IF r.ok THEN entry' = r.val /\ pc' = "as_html"
           ELSE UNCHANGED entry /\ pc' = "from_dict_raised"
    /\ UNCHANGED <<content, matches, idx, entries, origin, warnings, author_str,
                   author, data, entry_type, match_author, html, otherVars>>

\* html = entry.as_html(match_author=self.config.author)
AsHtml ==
    /\ pc = "as_html"
    /\ LET r == as_html(entry, match_author)
       IN  IF r.ok THEN html' = r.val /\ pc' = "rendered"
           ELSE UNCHANGED html /\ pc' = "as_html_raised"
    /\ UNCHANGED <<content, matches, idx, entries, origin, warnings, author_str,
                   author, data, entry_type, match_author, entry, otherVars>>

InitRender ==
    /\ data \in {FieldDict(o) : o \in OptionalTexts}
    /\ entry_type \in RecordTypes
    /\ match_author = S_Keestra
    /\ entry = None /\ html = None
    /\ pc = "from_dict"
    /\ IdleParser /\ IdleAuthor /\ IdleOthers

NextRender == FromDict \/ AsHtml

SpecRender == InitRender /\ [][NextRender]_vars

----------------------------------------------------------------------------
(* Documents of other shapes: an unclosed record, a record on one line,    *)
(* records that share a key                                                *)

\* a record without its closing brace line
OpenRecordText(i, r) == SubSeq(RecordText(i, r), 1, Len(RecordText(i, r)) - 2)

\* one record without its closing brace line, then one well-formed record
MalformedDocuments ==
    {OpenRecordText(1, r1) \o RecordText(2, r2) : r1 \in RecordChoices, r2 \in RecordChoices}

\* "@<type>{key1, author = {...}, title = {A Study}, year = {<year>}, doi = {10.1234/abc}}"
SingleLineText(r) ==
    <<"@">> \o r.type \o <<"{", "k", "e", "y", "1", ",", " ", "a", "u", "t", "h", "o", "r", " ", "=", " ", "{">> \o S_authors_example
    \o <<"}", ",", " ", "t", "i", "t", "l", "e", " ", "=", " ", "{">> \o S_title_example \o <<"}">>
    \o (IF r.year = None THEN <<>> ELSE <<",", " ", "y", "e", "a", "r", " ", "=", " ", "{">> \o r.year \o <<"}">>)
    \o <<",", " ", "d", "o", "i", " ", "=", " ", "{">> \o S_doi_example \o <<"}", "}">>

SingleLineDocuments == {SingleLineText(r) : r \in RecordChoices}
SingleLineExample == SingleLineText([type |-> S_article, year |-> S_2023])

\* two articles whose keys are chosen freely, so that they may coincide
KeyedDocuments ==
    {RecordText(i, [type |-> S_article, year |-> y1])
        \o RecordText(j, [type |-> S_article, year |-> y2]) :
            i \in 1..MaxRecords, j \in 1..MaxRecords, y1 \in YearTexts, y2 \in YearTexts}

InitShapes ==
    /\ content \in MalformedDocuments \cup SingleLineDocuments \cup KeyedDocuments
    /\ matches = <<>> /\ idx = 0 /\ entries = <<>> /\ origin = <<>>
    /\ warnings = <<>>
    /\ pc = "init"
    /\ IdleAuthor /\ IdleRender /\ IdleOthers

SpecShapes == InitShapes /\ [][Next]_vars

----------------------------------------------------------------------------
(* _parse_fields on its own *)

MaxFields == 2

\* one field of a record body: its name as written, its value as written,
\* and whether the value stands in braces
FieldNames == {S_year, <<"Y", "e", "a", "r">>, S_doi}
FieldChoices == [name : FieldNames, value : {S_2021, <<" ", "x", " ">>}, braced : BOOLEAN]

FieldText(f) ==
    f.name \o <<" ", "=", " ">>
    \o (IF f.braced THEN <<"{">> \o f.value \o <<"}">> ELSE f.value)

\* "<field>,\n  <field>,\n  ..."
RECURSIVE BodyText(_)
BodyText(fs) ==
    IF fs = <<>> THEN <<>>
    ELSE IF Len(fs) = 1 THEN FieldText(fs[1])
    ELSE BodyText(SubSeq(fs, 1, Len(fs) - 1)) \o <<",", "\n", " ", " ">> \o FieldText(fs[Len(fs)])

FieldLists == UNION {[1..n -> FieldChoices] : n \in 0..MaxFields}

\* entry_data = self._parse_fields(fields_str)
ParseFields ==
    /\ pc = "parse_fields"
    /\ data' = parse_fields(fields_text)
    /\ pc' = "parse_fields_returned"
    /\ UNCHANGED <<content, matches, idx, entries, origin, warnings, author_str,
                   author, entry_type, match_author, entry, html, otherVars>>

InitFields ==
    /\ fields_text \in {BodyText(fs) : fs \in FieldLists}
    /\ data = EmptyDict /\ entry_type = <<>> /\ match_author = <<>>
    /\ entry = None /\ html = None
    /\ pc = "parse_fields"
    /\ IdleParser /\ IdleAuthor /\ IdleEnrich /\ IdleScrape

NextFields == ParseFields

SpecFields == InitFields /\ [][NextFields]_vars

----------------------------------------------------------------------------
(* as_html on entries that differ in their authors and in match_author *)

MaxAuthors == 4

\* the raw author strings: two with a first name, one without
AuthorNames == {<<"K", "a", ",", " ", "S", "a">>, <<"S", "m", ",", " ", "J", "o">>, <<"L", "e", "e">>}

\* "<author> and <author> and ..."
RECURSIVE AuthorField(_)
AuthorField(as) ==
    IF Len(as) = 1 THEN as[1]
    ELSE AuthorField(SubSeq(as, 1, Len(as) - 1)) \o S_and \o as[Len(as)]

AuthorFields ==
    {AuthorField(as) : as \in UNION {[1..n -> AuthorNames] : n \in 1..MaxAuthors}}

\* match_author: not supplied (the default None), empty, or a text that is in
\* no name, in a name in either order of its parts, or in one order only
MatchAuthors == {None, <<>>, <<"z", "z">>, <<"k", "a">>, <<"K", "a", ",", " ", "S">>, <<"s", "a", " ", "k", "a">>, <<"L", "E", "E">>}

InitAuthorsHtml ==
    /\ data \in {FieldDict([doi |-> None, url |-> None, topic |-> S_topic_example,
                            abstract |-> None, author |-> a]) :
                    a \in {None} \cup AuthorFields}
    /\ entry_type = S_article
    /\ match_author \in MatchAuthors
    /\ entry = None /\ html = None
    /\ pc = "from_dict"
    /\ IdleParser /\ IdleAuthor /\ IdleOthers

SpecAuthorsHtml == InitAuthorsHtml /\ [][NextRender]_vars

----------------------------------------------------------------------------
(* as_html on entries that differ in their source fields *)

\* the field dictionaries: journal, booktitle, volume and number each absent
\* (None), and volume and number also empty
SourceTexts ==
    [journal : {None, <<"J">>}, booktitle : {None, <<"B">>},
     volume : {None, <<>>, <<"3">>}, number : {None, <<>>, <<"4">>}]

SourceDict(o) ==
    PutIfPresent(PutIfPresent(PutIfPresent(PutIfPresent(
        FieldDict([doi |-> None, url |-> None, topic |-> S_topic_example,
                   abstract |-> None, author |-> None]),
        S_journal, o.journal), S_booktitle, o.booktitle), S_volume, o.volume),
        S_number, o.number)

InitSource ==
    /\ data \in {SourceDict(o) : o \in SourceTexts}
    /\ entry_type \in RecordTypes
    /\ match_author = S_Keestra
    /\ entry = None /\ html = None
    /\ pc = "from_dict"
    /\ IdleParser /\ IdleAuthor /\ IdleOthers

SpecSource == InitSource /\ [][NextRender]_vars

----------------------------------------------------------------------------
(* AbstractScraper of scrape_abstracts.py *)

\* the names of the list `sources` with arXiv tried before bioRxiv
SourceNames_arxiv_before_biorxiv == <<"Crossref", "Semantic Scholar", "arXiv", "bioRxiv">>

\* the names of the list `sources` of scrape_abstract, in its order
SourceNames == <<"Crossref", "Semantic Scholar", "bioRxiv", "arXiv">>

\* what the server of a source does with a request: the connection or the
\* JSON fails (URLError stands for the exceptions the source functions catch),
\* the body cannot be decoded (an exception they do not catch), or the answer
\* holds no abstract, a blank abstract, or an abstract
ResponseKinds == {"URLError", "UnicodeDecodeError", "no abstract", "blank", "abstract"}
AbstractOf(kind) == IF kind = "blank" THEN <<" ">> ELSE <<" ", "A", "n", " ", "a", "b", "s", "t", "r", "a", "c", "t", ".", " ">>

\* the try block the four source functions share: urlopen, read, and
\* return abstract.strip() or None
Fetch(kind) ==
    IF kind = "UnicodeDecodeError" THEN Raised("UnicodeDecodeError")
    ELSE IF kind \in {"URLError", "no abstract"} THEN Returned(None)
    ELSE Returned(Strip(AbstractOf(kind)))

\* the DOI prefix a source function asks for before it sends a request
RequiredPrefix(name) ==
    IF name = "bioRxiv" THEN <<"1", "0", ".", "1", "1", "0", "1", "/">>
    ELSE IF name = "arXiv" THEN <<"1", "0", ".", "4", "8", "5", "5", "0", "/", "a", "r", "X", "i", "v", ".">>
    ELSE <<>>

\* get_abstract_from_crossref, _semantic_scholar, _biorxiv and _arxiv
SendsRequest(name, d) == StartsWith(d, RequiredPrefix(name))
get_abstract_from(name, d, kind) ==
    IF SendsRequest(name, d) THEN Fetch(kind) ELSE Returned(None)

\* scrape_abstract up to the loop: `if not doi: return None`
ScrapeStart ==
    /\ pc = "scrape_abstract"
    /\ IF Truthy(doi)
       THEN source_i' = 1 /\ pc' = "scrape_loop" /\ UNCHANGED result
       ELSE result' = None /\ pc' = "scrape_returned" /\ UNCHANGED source_i
    /\ UNCHANGED <<content, matches, idx, entries, origin, warnings, author_str,
                   author, data, entry_type, match_author, entry, html,
                   fields_text, updated_entries, entry_i, doi, responses,
                   called, requested>>

\* one iteration of `for source_name, source_func in sources`
TrySource ==
    /\ pc = "scrape_loop"
    /\ source_i <= Len(SourceNames)
    /\ LET name == SourceNames[source_i]
           r == get_abstract_from(name, doi, responses[name])
       IN  /\ called' = Append(called, name)
           /\ requested' = IF SendsRequest(name, doi) THEN Append(requested, name)
                           ELSE requested
           /\ IF r.ok /\ Truthy(r.val)
              THEN result' = r.val /\ pc' = "scrape_returned" /\ UNCHANGED source_i
              ELSE source_i' = source_i + 1 /\ UNCHANGED <<result, pc>>
    /\ UNCHANGED <<content, matches, idx, entries, origin, warnings, author_str,
                   author, data, entry_type, match_author, entry, html,
                   fields_text, updated_entries, entry_i, doi, responses>>

\* after the loop: `return None`
ScrapeGiveUp ==
    /\ pc = "scrape_loop"
    /\ source_i > Len(SourceNames)
    /\ result' = None
    /\ pc' = "scrape_returned"
    /\ UNCHANGED <<content, matches, idx, entries, origin, warnings, author_str,
                   author, data, entry_type, match_author, entry, html,
                   fields_text, updated_entries, entry_i, doi, responses,
                   source_i, called, requested>>

\* the DOIs: none, empty, a journal's, a bioRxiv one and an arXiv one
Dois == {None, <<>>, S_doi_example, <<"1", "0", ".", "1", "1", "0", "1", "/">> \o <<"x">>, <<"1", "0", ".", "4", "8", "5", "5", "0", "/", "a", "r", "X", "i", "v", ".">> \o <<"1">>}

InitScrape ==
    /\ doi \in Dois
    /\ responses \in [{SourceNames[i] : i \in 1..Len(SourceNames)} -> ResponseKinds]
    /\ source_i = 0 /\ called = <<>> /\ requested = <<>> /\ result = None
    /\ pc = "scrape_abstract"
    /\ IdleParser /\ IdleAuthor /\ IdleRender /\ IdleFields /\ IdleEnrich

NextScrape == ScrapeStart \/ TrySource \/ ScrapeGiveUp

SpecScrape == InitScrape /\ [][NextScrape]_vars

\* scrape_abstract as a function of the DOI and of what the servers answer:
\* the loop from source i on
RECURSIVE ScrapeFrom(_, _, _)
ScrapeFrom(i, d, resp) ==
    IF i > Len(SourceNames) THEN None
    ELSE LET r == get_abstract_from(SourceNames[i], d, resp[SourceNames[i]])
         IN  IF r.ok /\ Truthy(r.val) THEN r.val ELSE ScrapeFrom(i + 1, d, resp)

scrape_abstract(d, resp) == IF Truthy(d) THEN ScrapeFrom(1, d, resp) ELSE None

\* the values scrape_abstract can return for a DOI, over all the servers can answer
Responses == [{SourceNames[i] : i \in 1..Len(SourceNames)} -> ResponseKinds]
ScrapeReturns == [d \in Dois |-> {scrape_abstract(d, resp) : resp \in Responses}]

----------------------------------------------------------------------------
(* add_abstracts_to_bibliography of scrape_abstracts.py *)

MaxEntries == 2

\* the three constructor calls of the loop: BibArticle(...) for an article,
\* BibInProceedings(...) for proceedings, BibArticle(...) with the common
\* fields for every other entry; a field that is not passed has its default
UpdatedEntry(e, abstract) ==
    IF e.cls = "BibArticle"
    THEN [cls |-> "BibArticle", key |-> e.key, title |-> e.title,
          authors |-> e.authors, year |-> e.year, month |-> e.month,
          url |-> e.url, doi |-> e.doi, publisher |-> e.publisher,
          abstract |-> abstract, topic |-> None,
          journal |-> e.journal, volume |-> e.volume, number |-> e.number,
          pages |-> e.pages, issn |-> e.issn]
    ELSE IF e.cls = "BibInProceedings"
    THEN [cls |-> "BibInProceedings", key |-> e.key, title |-> e.title,
          authors |-> e.authors, year |-> e.year, month |-> e.month,
          url |-> e.url, doi |-> e.doi, publisher |-> e.publisher,
          abstract |-> abstract, topic |-> None,
          booktitle |-> e.booktitle, pages |-> e.pages, editor |-> e.editor]
    ELSE [cls |-> "BibArticle", key |-> e.key, title |-> e.title,
          authors |-> e.authors, year |-> e.year, month |-> e.month,
          url |-> e.url, doi |-> e.doi, publisher |-> e.publisher,
          abstract |-> abstract, topic |-> None,
          journal |-> None, volume |-> None, number |-> None,
          pages |-> None, issn |-> None]

\* one iteration of `for i, entry in enumerate(entries, 1)`; what the servers
\* answer to scraper.scrape_abstract(entry.doi) is open
EnrichEntry ==
    /\ pc = "enrich_loop"
    /\ entry_i <= Len(entries)
    /\ LET e == entries[entry_i]
       IN  IF HasAttr(e, "abstract") /\ Truthy(e.abstract)
           THEN updated_entries' = Append(updated_entries, e)
           ELSE IF Truthy(e.doi)
           THEN \E abstract \in ScrapeReturns[e.doi] :
                    updated_entries' = Append(updated_entries, UpdatedEntry(e, abstract))
           ELSE updated_entries' = Append(updated_entries, UpdatedEntry(e, None))
    /\ entry_i' = entry_i + 1
    /\ UNCHANGED <<content, matches, idx, entries, origin, warnings, pc, author_str,
                   author, data, entry_type, match_author, entry, html,
                   fields_text, doi, responses, source_i, called, requested, result>>

\* after the loop: parser.entries = updated_entries
EnrichFinish ==
    /\ pc = "enrich_loop"
    /\ entry_i > Len(entries)
    /\ pc' = "enriched"
    /\ UNCHANGED <<content, matches, idx, entries, origin, warnings, author_str,
                   author, data, entry_type, match_author, entry, html,
                   otherVars>>

\* the entries the pass is run on: of each variant, with and without a topic,
\* an abstract and a DOI
EnrichDict(o) ==
    Put(Put(Put(FieldDict([doi |-> o.doi, url |-> None, topic |-> o.topic,
                           abstract |-> o.abstract, author |-> None]),
                S_journal, <<"J">>), S_booktitle, <<"B">>), S_institution, <<"I">>)
EnrichEntries ==
    {MakeEntry(t, EnrichDict(o)).val :
        t \in {S_article, S_inproceedings, S_techreport},
        o \in [doi : {None, S_doi_example}, topic : {None, S_topic_example},
               abstract : {None, AbstractOfLen(1)}]}

\* entries = parser.parse_file(bib_file); updated_entries = []
InitEnrich ==
    /\ entries \in UNION {[1..n -> EnrichEntries] : n \in 0..MaxEntries}
    /\ updated_entries = <<>>
    /\ entry_i = 1
    /\ pc = "enrich_loop"
    /\ content = <<>> /\ matches = <<>> /\ idx = 0 /\ origin = <<>> /\ warnings = <<>>
    /\ IdleAuthor /\ IdleRender /\ IdleFields /\ IdleScrape

NextEnrich == EnrichEntry \/ EnrichFinish

SpecEnrich == InitEnrich /\ [][NextEnrich]_vars

----------------------------------------------------------------------------
(* Properties of BibliographyParser.__init__ *)

Range(s) == {s[i] : i \in 1..Len(s)}

\* the records the for loop has gone through
Processed == IF pc = "init" THEN {} ELSE 1..(idx - 1)

\* the try block raises on record i
RecordRaises(i) == YearRaises(EntryData(matches[i]))

\* C1: after construction, entries are ordered non-increasing by year, and
\* entries of the same year are in the order of their records in the document.
C1_SortedByYearStable ==
    pc = "done" =>
        /\ Len(origin) = Len(entries)
        /\ \A i, j \in 1..Len(entries) :
              i < j => /\ entries[i].year >= entries[j].year
                       /\ entries[i].year = entries[j].year => origin[i] < origin[j]

\* the spec's example: years 2021, 2023, 2021 sort to 2023, 2021 (first),
\* 2021 (second)
C1_Witness ==
    /\ pc = "done"
    /\ Len(entries) = 3
    /\ <<entries[1].year, entries[2].year, entries[3].year>> = <<2023, 2021, 2021>>
    /\ origin = <<2, 1, 3>>

\* C2: a record whose parsing raises is left out and parsing goes on: every
\* other record gone through has its entry, and the constructor never aborts.
C2_BadRecordSkipped ==
    /\ pc \in {"init", "loop", "done"}
    /\ pc = "done" => idx = Len(matches) + 1
    /\ \A i \in Processed :
          IF RecordRaises(i) THEN i \notin Range(origin)
          ELSE \E k \in 1..Len(entries) :
                  origin[k] = i /\ entries[k].key = matches[i][2]

\* a bad record followed by a good one: the good one is the only entry
C2_Witness ==
    /\ pc = "done"
    /\ Len(matches) = 2
    /\ RecordRaises(1)
    /\ origin = <<2>>
    /\ warnings = <<matches[1][2]>>

\* C3 (as claimed): a record whose year is absent or no integer yields an
\* entry with year 0 that is kept.
C3_UnparsableYearIsZero ==
    \A i \in Processed :
        LET d == EntryData(matches[i])
        IN  (S_year \notin DOMAIN d \/ ~IntOk(d[S_year])) =>
                \E k \in 1..Len(entries) : origin[k] = i /\ entries[k].year = 0

\* the class the record type name stands for
VariantOf(type) ==
    CASE type = S_article -> "BibArticle"
      [] type = S_inproceedings -> "BibInProceedings"
      [] type = S_techreport -> "BibTechReport"
      [] OTHER -> "BibArticle"

\* C5: the variant of an entry is decided by the record type name, unknown
\* names fall back to Article, and no record is left out for its type name.
C5_VariantDispatch ==
    \A i \in Processed :
        ~RecordRaises(i) =>
            \E k \in 1..Len(entries) :
                /\ origin[k] = i
                /\ entries[k].cls = VariantOf(matches[i][1])
                /\ HasAttr(entries[k], "institution") <=> matches[i][1] = S_techreport
                /\ HasAttr(entries[k], "booktitle") <=> matches[i][1] = S_inproceedings

\* a tech report and a record of an unknown type, both kept
C5_Witness ==
    /\ pc = "done"
    /\ Len(entries) = 2
    /\ matches[origin[1]][1] = S_techreport /\ entries[1].cls = "BibTechReport"
    /\ matches[origin[2]][1] = S_misc /\ entries[2].cls = "BibArticle"

----------------------------------------------------------------------------
(* Properties of BibAuthor.from_string *)

\* the places where ", " occurs in s (two occurrences cannot overlap)
SeparatorAt(s) == {i \in 1..Len(s) : MatchesAt(s, S_comma_space, i)}

\* what the claim says of the text s in which the separators are counted
SplitsAtOnlySeparator(s) ==
    IF Cardinality(SeparatorAt(s)) = 1
    THEN LET i == CHOOSE i \in SeparatorAt(s) : TRUE
         IN  /\ author.last_name = Strip(SubSeq(s, 1, i - 1))
             /\ author.first_name = Strip(SubSeq(s, i + 2, Len(s)))
    ELSE /\ author.last_name = Strip(author_str)
         /\ author.first_name = <<>>

\* C4 (as claimed): the separators are counted in the raw author string.
C4_SeparatorsOfRawString ==
    pc = "from_string_returned" => SplitsAtOnlySeparator(author_str)

\* C4 (amended): the separators are counted in the trimmed author string:
\* exactly one gives (last, first) = the trimmed texts before and after it,
\* any other count gives (whole trimmed string, "").
C4_SeparatorsOfTrimmedString ==
    pc = "from_string_returned" => SplitsAtOnlySeparator(Strip(author_str))

\* one separator, and a name with two separators that falls back
C4_Witness ==
    /\ pc = "from_string_returned"
    /\ author_str = <<"a", ",", " ", "a", ",", " ", "a">>
    /\ author = [first_name |-> <<>>, last_name |-> author_str]

----------------------------------------------------------------------------
(* Properties of BibEntry.as_html *)

\* the class names of the fragment, in order
RootClasses == Split(html.kwargs.cls, S_space)

\* the child of the fragment that has class c
Block(c) ==
    CHOOSE x \in Range(html.children.items) : x.kwargs.cls = c

\* the doi is present and begins with "10."
DoiHasPrefix ==
    /\ entry.doi # None
    /\ Len(entry.doi) >= 3
    /\ <<entry.doi[1], entry.doi[2], entry.doi[3]>> = <<"1", "0", ".">>

\* C6: the fragment has class "with-score" if the doi is present and begins
\* with "10.", and class "no-score" in every other case.
C6_ScoreClass ==
    pc = "rendered" =>
        /\ RootClasses[1] = S_reference
        /\ RootClasses[2] = (IF DoiHasPrefix THEN S_with_score ELSE S_no_score)

\* the spec's example doi 10.1234/abc is with-score
C6_Witness ==
    /\ pc = "rendered"
    /\ entry.doi = S_doi_example
    /\ RootClasses[2] = S_with_score

\* C7 (as claimed): the badges are in the fragment only when the entry is
\* with-score; a no-score fragment has no badge markup.
C7_BadgesOnlyWithScore ==
    pc = "rendered" =>
        (Block(S_cls_badges).children.kind = "list" => DoiHasPrefix)

\* the text the abstract block shows
AbstractShown == Block(S_cls_abstract).children.children

\* C8 (as claimed): an abstract of at most 200 characters is shown in full,
\* a longer one as its first 200 characters followed by an ellipsis.
C8_AbstractTruncated ==
    (pc = "rendered" /\ entry.abstract # None) =>
        IF Len(entry.abstract) <= 200
        THEN AbstractShown = StrNode(entry.abstract)
        ELSE AbstractShown = StrNode(SubSeq(entry.abstract, 1, 200) \o S_dots)

S_hash == <<"#">>

\* C9 (as claimed): the title links to the url when it is set, else to
\* https://doi.org/{doi} when the doi is set, else to "#".
C9_TitleHref ==
    pc = "rendered" =>
        Block(S_cls_title).children.items[1].kwargs.href =
            (IF Truthy(entry.url) THEN entry.url
             ELSE IF Truthy(entry.doi) THEN S_doi_org \o entry.doi
             ELSE S_hash)

\* C10 (as claimed): as_html never raises, whichever optional fields are absent.
C10_RenderNeverRaises == pc # "as_html_raised"

----------------------------------------------------------------------------
(* Documents of other shapes *)

\* the entries the try block builds from a list of matches, in order
RECURSIVE EntriesOf(_)
EntriesOf(ms) ==
    IF ms = <<>> THEN <<>>
    ELSE LET m == ms[Len(ms)]
             r == MakeEntry(m[1], EntryData(m))
         IN  EntriesOf(SubSeq(ms, 1, Len(ms) - 1)) \o (IF r.ok THEN <<r.val>> ELSE <<>>)

\* the well-formed record of a document of MalformedDocuments: the text from
\* its second "@" on
WellFormedPart(c) == SubSeq(c, Find(c, <<"@">>, 2), Len(c))

\* C11 (as claimed): a document of one record without its closing brace line
\* followed by one well-formed record parses to what the well-formed record
\* alone parses to: its key and its fields, nothing of the malformed record.
C11_MalformedRecordDropped ==
    (pc = "done" /\ content \in MalformedDocuments)
        => entries = EntriesOf(FindAllFrom(WellFormedPart(content), 1))

\* C13 (as claimed): the single-line example record parses to exactly one
\* Article with the authors (Keestra, Sarai M.), (Smith, John) and year 2023.
C13_SingleLineExampleParses ==
    (pc = "done" /\ content = SingleLineExample)
        => /\ Len(entries) = 1
           /\ entries[1].cls = "BibArticle"
           /\ entries[1].authors = ParseAuthors(Put(EmptyDict, S_author, S_authors_example))
           /\ Len(entries[1].authors) = 2
           /\ entries[1].authors[1].last_name = S_Keestra
           /\ entries[1].year = 2023

\* C15 (as claimed): after parsing, no two entries have the same key.
C15_KeysUnique ==
    pc = "done" =>
        \A i \in 1..Len(entries) : \A j \in 1..Len(entries) :
            entries[i].key = entries[j].key => i = j

----------------------------------------------------------------------------
(* _parse_fields *)

\* the mapping the claim describes for a list of fields: lowercase names,
\* trimmed values, the last occurrence of a name wins
ClaimedFields(fs) ==
    [k \in {Lower(fs[i].name) : i \in 1..Len(fs)} |->
        LET last == CHOOSE i \in 1..Len(fs) :
                        /\ Lower(fs[i].name) = k
                        /\ \A j \in 1..Len(fs) : Lower(fs[j].name) = k => j <= i
        IN  Strip(fs[last].value)]

\* C12 (as claimed): for every record body the field parser returns the mapping
\* from the lowercase field names to the trimmed values, the last occurrence of
\* a name giving its value.
C12_LowercaseKeysLastWins ==
    pc = "parse_fields_returned" =>
        \A fs \in FieldLists : fields_text = BodyText(fs) => data = ClaimedFields(fs)

----------------------------------------------------------------------------
(* The author list of the fragment *)

\* the children of the authors block: the spans of the names and the ellipses
AuthorsItems ==
    IF html.children.items[6].children.kind = "list"
    THEN html.children.items[6].children.items ELSE <<>>
IsEllipsis(x) == x.kwargs.cls = S_author_ellipsis
\* the spans of the names, one per author, in the order of the authors
NameSpans == SelectSeq(AuthorsItems, LAMBDA x : ~IsEllipsis(x))
NameClass(i) == NameSpans[i].kwargs.cls
\* the position in AuthorsItems of the span of author i
NamePos(i) ==
    CHOOSE p \in 1..Len(AuthorsItems) :
        /\ ~IsEllipsis(AuthorsItems[p])
        /\ Cardinality({q \in 1..p : ~IsEllipsis(AuthorsItems[q])}) = i
\* the authors that carry the match marker
Marked == {i \in 1..Len(NameSpans) : NameClass(i) = S_author_match}

\* C14 (as claimed): with match_author not supplied or empty, an entry with
\* authors renders without error, no author carries the match marker, and the
\* first and the last author are fully visible.
C14_NoMatchAuthorNoMark ==
    (/\ pc \in {"rendered", "as_html_raised"}
     /\ match_author \in {None, <<>>}
     /\ entry.authors # <<>>)
        => /\ pc = "rendered"
           /\ Marked = {}
           /\ NameClass(1) = S_author_visible
           /\ NameClass(Len(NameSpans)) = S_author_visible

\* the name of an author in the form "{last}, {first}", or "{last}" alone
LastFirstName(a) ==
    IF a.first_name # <<>> THEN a.last_name \o S_comma_space \o a.first_name
    ELSE a.last_name

\* C16 (as claimed): for a non-empty match_author the one author marked as
\* matched is the lowest-index author whose name in the form "{last}, {first}"
\* contains match_author case-insensitively; none is marked if there is none.
C16_MatchedIsFirstLastFirstName ==
    (pc = "rendered" /\ Truthy(match_author)) =>
        LET hits == {i \in 1..Len(entry.authors) :
                        Contains(Lower(LastFirstName(entry.authors[i])), Lower(match_author))}
        IN  Marked = {i \in hits : \A k \in hits : i <= k}

\* C17: with more than 3 authors every author that is not the first, the last
\* or the matched one is elidable, and an ellipsis stands directly after the
\* first author and directly before the last author exactly when that edge
\* author is not the matched one; with 3 or fewer authors no author is elidable
\* and there is no ellipsis.
C17_ElidableAndEllipsis ==
    pc = "rendered" =>
        LET n == Len(entry.authors)
            ellipses == {p \in 1..Len(AuthorsItems) : IsEllipsis(AuthorsItems[p])}
        IN  /\ Len(NameSpans) = n
            /\ n > 3 =>
                /\ \A i \in 2..(n - 1) :
                        i \notin Marked => NameClass(i) = S_author_toggle
                /\ \A i \in {1, n} :
                        i \notin Marked => NameClass(i) = S_author_visible
                /\ ellipses = {NamePos(1) + 1 : i \in {1} \ Marked}
                                \cup {NamePos(n) - 1 : i \in {n} \ Marked}
            /\ n <= 3 =>
                /\ ellipses = {}
                /\ \A i \in 1..n : NameClass(i) # S_author_toggle

\* four authors, the second matched: the third is elidable, and both edges
\* have their ellipsis
C17_Witness ==
    /\ pc = "rendered"
    /\ Len(entry.authors) = 4
    /\ Marked = {2}
    /\ NameClass(3) = S_author_toggle
    /\ IsEllipsis(AuthorsItems[2]) /\ IsEllipsis(AuthorsItems[5])
    /\ Len(AuthorsItems) = 6

----------------------------------------------------------------------------
(* The source line of the fragment *)

\* the text of the source line
SourceLine == Block(S_cls_source).children.items[1].children.items[1].text

\* the field of the entry, <<>> when the variant has no such field or it is None
FieldOrEmpty(name) ==
    IF name \in DOMAIN entry /\ entry[name] # None THEN entry[name] ELSE <<>>

\* C18 (as claimed): the source line is the journal (Article) or the booktitle
\* (InProceedings) alone when there is no volume, "{source} | Vol. {v}" when
\* there is only a volume, and "{source} | Vol. {v} No. {n}" when there are a
\* volume and a number.
C18_SourceLine ==
    pc = "rendered" =>
        LET source == IF entry.cls = "BibArticle" THEN FieldOrEmpty("journal")
                      ELSE IF entry.cls = "BibInProceedings" THEN FieldOrEmpty("booktitle")
                      ELSE <<>>
            v == FieldOrEmpty("volume")
            n == FieldOrEmpty("number")
        IN  SourceLine =
                IF v = <<>> THEN source
                ELSE IF n = <<>> THEN source \o <<" ", "|", " ", "V", "o", "l", ".", " ">> \o v
                ELSE source \o <<" ", "|", " ", "V", "o", "l", ".", " ">> \o v \o <<" ", "N", "o", ".", " ">> \o n

----------------------------------------------------------------------------
(* scrape_abstract *)

\* source name answers with a non-empty abstract for doi
Finds(name) ==
    /\ responses[name] = "abstract"
    /\ name = "bioRxiv" => Len(doi) >= 8 /\ SubSeq(doi, 1, 8) = <<"1", "0", ".", "1", "1", "0", "1", "/">>
    /\ name = "arXiv" => Len(doi) >= 15 /\ SubSeq(doi, 1, 15) = <<"1", "0", ".", "4", "8", "5", "5", "0", "/", "a", "r", "X", "i", "v", ".">>

\* C20: scrape_abstract calls the sources in the order Crossref, Semantic
\* Scholar, bioRxiv, arXiv; it returns the first non-empty abstract and calls
\* no later source; a source that raises or finds nothing is followed by the
\* next one; it returns None only when all four were called and none found an
\* abstract, or at once without a call when the DOI is empty.
C20_SourcesInOrder ==
    LET order == <<"Crossref", "Semantic Scholar", "bioRxiv", "arXiv">>
        found == {i \in 1..4 : Finds(order[i])}
    IN  /\ called = SubSeq(order, 1, Len(called))
        /\ \A k \in 1..Len(requested) : \E i \in 1..Len(called) : requested[k] = called[i]
        /\ pc = "scrape_returned" =>
             IF doi = None \/ doi = <<>>
             THEN called = <<>> /\ requested = <<>> /\ result = None
             ELSE IF found # {}
             THEN /\ \E i \in found : Len(called) = i /\ \A k \in found : i <= k
                  /\ result = <<"A", "n", " ", "a", "b", "s", "t", "r", "a", "c", "t", ".">>
             ELSE called = order /\ result = None

\* bioRxiv's abstract is returned after Crossref raised and Semantic Scholar
\* found nothing; arXiv is not called
C20_Witness ==
    /\ pc = "scrape_returned"
    /\ responses["Crossref"] = "UnicodeDecodeError"
    /\ responses["Semantic Scholar"] = "no abstract"
    /\ called = <<"Crossref", "Semantic Scholar", "bioRxiv">>
    /\ requested = called
    /\ result = <<"A", "n", " ", "a", "b", "s", "t", "r", "a", "c", "t", ".">>

\* the loop of scrape_abstract, run step by step, returns what the function
\* scrape_abstract computes
ScrapeStepsAgree ==
    pc = "scrape_returned" => result = scrape_abstract(doi, responses)

----------------------------------------------------------------------------
(* add_abstracts_to_bibliography *)

\* C19 (as claimed): the pass outputs as many entries as it was given, in
\* their order; an entry that has an abstract is passed through unchanged, and
\* every other entry becomes an entry of the same variant that differs from it
\* in the abstract at most (topic and the variant's own fields included).
C19_EnrichmentPreserves ==
    pc = "enriched" =>
        /\ Len(updated_entries) = Len(entries)
        /\ \A i \in 1..Len(entries) :
              LET e == entries[i]
                  u == updated_entries[i]
              IN  IF Truthy(e.abstract) THEN u = e
                  ELSE /\ u.cls = e.cls
                       /\ DOMAIN u = DOMAIN e
                       /\ \A f \in DOMAIN e \ {"abstract"} : u[f] = e[f]
====
